---- MODULE Spec2Model ----
(***************************************************************************)
(* A model of lb64: the Base64 number type (src/src/lib.rs), its encoders  *)
(* (src/src/encode.rs), its decoders (src/src/decode.rs) and its Config    *)
(* (src/src/config.rs).                                                    *)
(*                                                                         *)
(* A char is its Unicode code point.  A String, a Vec<char> and a slice    *)
(* are sequences.  An Option is a sequence of length at most one.  A u128  *)
(* is eight 16-bit limbs, least significant first, so that the checked     *)
(* 128-bit arithmetic of the decoder overflows exactly where the code's    *)
(* does.                                                                   *)
(***************************************************************************)
EXTENDS Integers, Sequences, FiniteSets, TLC

VARIABLES value, conf, other, call, ret

vars == <<value, conf, other, call, ret>>

---------------------------------------------------------------------------
(* Option<T> and Result<T, E> *)

None == <<>>
Some(x) == <<x>>
is_some(o) == Len(o) > 0
is_none(o) == Len(o) = 0
unwrap(o) == o[1]
unwrap_or(o, d) == IF is_some(o) THEN o[1] ELSE d

Ok(x) == <<"Ok", x>>
Err(e) == <<"Err", e>>

\* the sequence <<F(1), ..., F(n)>>, each element computed once
RECURSIVE SeqFrom(_, _, _)
SeqFrom(F(_), i, n) == IF i > n THEN <<>> ELSE <<F(i)>> \o SeqFrom(F, i + 1, n)

SeqOf(F(_), n) == SeqFrom(F, 1, n)

Reverse(s) == SeqOf(LAMBDA i : s[Len(s) + 1 - i], Len(s))

Range(s) == {s[i] : i \in 1..Len(s)}

---------------------------------------------------------------------------
(* Characters the code names *)

CH_NUL == 0
CH_NEWLINE == 10
CH_SPACE == 32
CH_DEL == 127
CH_0 == 48
CH_1 == 49
CH_QUESTION == 63
CH_A == 65
CH_EQUALS == 61

---------------------------------------------------------------------------
(* u128: checked arithmetic on eight 16-bit limbs *)

U128_BITS == 128
LimbBits == U128_BITS \div 8
Limb == 2 ^ LimbBits
NLimbs == U128_BITS \div LimbBits

U128Zero == SeqOf(LAMBDA i : 0, NLimbs)
U128Max == SeqOf(LAMBDA i : Limb - 1, NLimbs)

\* the u128 of a natural below 2^31
U128(n) == SeqOf(LAMBDA i : IF i = 1 THEN n % Limb
                            ELSE IF i = 2 THEN n \div Limb ELSE 0, NLimbs)

\* 2^k as a u128, k < 128
U128Pow2(k) == SeqOf(LAMBDA i : IF i = (k \div LimbBits) + 1
                               THEN 2 ^ (k % LimbBits) ELSE 0, NLimbs)

U128IsZero(v) == \A i \in 1..NLimbs : v[i] = 0

\* value % 64 and value / 64
U128Mod64(v) == v[1] % 64
U128Div64(v) ==
    SeqOf(LAMBDA i : (v[i] \div 64)
                     + (IF i < NLimbs THEN (v[i + 1] % 64) * (Limb \div 64) ELSE 0),
          NLimbs)

RECURSIVE U128AddLimbs(_, _, _, _)
U128AddLimbs(a, b, i, carry) ==
    IF i > NLimbs THEN <<carry>>
    ELSE LET s == a[i] + b[i] + carry
         IN  <<s % Limb>> \o U128AddLimbs(a, b, i + 1, s \div Limb)

\* u128::checked_add
checked_add(a, b) ==
    LET r == U128AddLimbs(a, b, 1, 0)
    IN  IF r[NLimbs + 1] # 0 THEN None ELSE Some(SubSeq(r, 1, NLimbs))

RECURSIVE U128MulLimbs(_, _, _, _)
U128MulLimbs(d, b, i, carry) ==
    IF i > NLimbs THEN <<carry>>
    ELSE LET p == d * b[i] + carry
         IN  <<p % Limb>> \o U128MulLimbs(d, b, i + 1, p \div Limb)

\* u128::wrapping_mul: the product modulo 2^128
checked_mul_wrapping(d, b) == Some(SubSeq(U128MulLimbs(d, b, 1, 0), 1, NLimbs))

\* u128::checked_mul, the left factor a natural below 2^15
checked_mul(d, b) ==
    LET r == U128MulLimbs(d, b, 1, 0)
    IN  IF r[NLimbs + 1] # 0 THEN None ELSE Some(SubSeq(r, 1, NLimbs))

\* u128::checked_pow: None as soon as a partial product leaves 128 bits
RECURSIVE checked_pow(_, _)
checked_pow(base, exp) ==
    IF exp = 0 THEN Some(U128(1))
    ELSE LET r == checked_pow(base, exp - 1)
         IN  IF is_none(r) THEN None ELSE checked_mul(base, unwrap(r))

\* a < b on u128
RECURSIVE U128LessFrom(_, _, _)
U128LessFrom(a, b, i) ==
    IF i = 0 THEN FALSE
    ELSE IF a[i] # b[i] THEN a[i] < b[i]
    ELSE U128LessFrom(a, b, i - 1)

U128Less(a, b) == U128LessFrom(a, b, NLimbs)

---------------------------------------------------------------------------
(* config.rs *)

\* char as u16 keeps the low 16 bits of the code point
as_u16(c) == c % (2 ^ 16)

\* char::is_control: the general category Cc
is_control(c) == c \in 0..31 \/ c \in 127..159

is_representable(c) ==
    LET u == as_u16(c)
    IN  u > 31 /\ u # CH_DEL /\ u # CH_SPACE /\ ~is_control(c)

check_unique_pad(set, v) == \A i \in 1..Len(set) : set[i] # v

are_duplicates(set) ==
    \E i \in 1..Len(set) : \E j \in (i + 1)..Len(set) : set[i] = set[j]

character_set_is_representable(set) ==
    \A i \in 1..Len(set) : is_representable(set[i])

Config(set, pad_char, len) ==
    [character_set |-> set, pad |-> pad_char, line_length |-> len]

\* Config::new with the duplicate check moved before the representability
\* checks, the order set_character_set uses
Config_new_duplicates_first(set, pad_char, len) ==
    IF Len(set) # 64 THEN Err("CharacterSetLengthError")
    ELSE IF is_some(pad_char) /\ ~check_unique_pad(set, unwrap(pad_char))
    THEN Err("NotUniquePaddingError")
    ELSE IF are_duplicates(set) THEN Err("DuplicateCharacterError")
    ELSE IF ~character_set_is_representable(set)
    THEN Err("CharacterSetUnrepresentableCharacter")
    ELSE IF is_some(pad_char) /\ ~is_representable(unwrap(pad_char))
    THEN Err("PaddingUnrepresentableCharacter")
    ELSE Ok(Config(set, pad_char, len))

Config_new(set, pad_char, len) ==
    IF Len(set) # 64 THEN Err("CharacterSetLengthError")
    ELSE IF is_some(pad_char) /\ ~check_unique_pad(set, unwrap(pad_char))
    THEN Err("NotUniquePaddingError")
    ELSE IF ~character_set_is_representable(set)
    THEN Err("CharacterSetUnrepresentableCharacter")
    ELSE IF is_some(pad_char) /\ ~is_representable(unwrap(pad_char))
    THEN Err("PaddingUnrepresentableCharacter")
    ELSE IF are_duplicates(set) THEN Err("DuplicateCharacterError")
    ELSE Ok(Config(set, pad_char, len))

\* the Result of set_character_set, and the Config it leaves
set_character_set_result(c, set) ==
    IF Len(set) # 64 THEN Err("CharacterSetLengthError")
    ELSE IF are_duplicates(set) THEN Err("DuplicateCharacterError")
    ELSE IF ~character_set_is_representable(set)
    THEN Err("CharacterSetUnrepresentableCharacter")
    ELSE Ok(<<>>)

set_character_set_config(c, set) ==
    IF set_character_set_result(c, set) = Ok(<<>>)
    THEN [c EXCEPT !.character_set = set] ELSE c

set_line_length_config(c, len) == [c EXCEPT !.line_length = len]

\* the Result of set_padding, and the Config it leaves
set_padding_result(c, pad_char) ==
    IF is_some(pad_char) /\ ~check_unique_pad(c.character_set, unwrap(pad_char))
    THEN Err("NotUniquePaddingError")
    ELSE IF is_some(pad_char) /\ is_representable(unwrap(pad_char))
    THEN Err("PaddingUnrepresentableCharacter")
    ELSE Ok(<<>>)

\* set_padding assigning the pad before it validates it
set_padding_config_unchecked(c, pad_char) == [c EXCEPT !.pad = pad_char]

set_padding_config(c, pad_char) ==
    IF set_padding_result(c, pad_char) = Ok(<<>>)
    THEN [c EXCEPT !.pad = pad_char] ELSE c

\* 'A'..'Z', 'a'..'z', '0'..'9'
AlphaNum ==
    SeqOf(LAMBDA i : 64 + i, 26) \o SeqOf(LAMBDA i : 96 + i, 26)
                                 \o SeqOf(LAMBDA i : 47 + i, 10)

\* '+' '/'   '+' ','   '-' '_'
STANDARD_SET == AlphaNum \o <<43, 47>>
IMAP_SET == AlphaNum \o <<43, 44>>
URL_SAFE_SET == AlphaNum \o <<45, 95>>

MIME == Config(STANDARD_SET, Some(CH_EQUALS), Some(76))
IMAP == Config(IMAP_SET, None, None)
URL_SAFE_PADDING == Config(URL_SAFE_SET, Some(CH_EQUALS), None)
URL_SAFE_NO_PADDING == Config(URL_SAFE_SET, None, None)
STANDARD == Config(STANDARD_SET, Some(CH_EQUALS), None)

CanonicalConfigs == {STANDARD, MIME, IMAP, URL_SAFE_PADDING, URL_SAFE_NO_PADDING}

---------------------------------------------------------------------------
(* lib.rs: helpers *)

is_valid_base64(pad, a, val) ==
    \/ val = CH_NEWLINE \/ val = CH_SPACE \/ val = pad
    \/ \E i \in 1..Len(a) : val = a[i]

\* a[value as usize]
decimal_to_base64_char(a, v) == a[v + 1]

\* base64_char_to_decimal giving the length of the set, not 0, for a character
\* the set does not hold
base64_char_to_decimal_or_len(a, c) ==
    IF \E i \in 1..Len(a) : a[i] = c
    THEN (CHOOSE i \in 1..Len(a) : a[i] = c /\ \A j \in 1..(i - 1) : a[j] # c) - 1
    ELSE Len(a)

\* the index of the first occurrence of c, or 0 when there is none
base64_char_to_decimal(a, c) ==
    IF \E i \in 1..Len(a) : a[i] = c
    THEN (CHOOSE i \in 1..Len(a) : a[i] = c /\ \A j \in 1..(i - 1) : a[j] # c) - 1
    ELSE 0

RECURSIVE decimal_to_base64_loop(_, _, _)
decimal_to_base64_loop(a, v, acc) ==
    IF U128IsZero(v) THEN acc
    ELSE decimal_to_base64_loop(a, U128Div64(v),
                                Append(acc, decimal_to_base64_char(a, U128Mod64(v))))

\* decimal_to_base64 without its final reversal: least significant symbol first
decimal_to_base64_unreversed(c, v) == decimal_to_base64_loop(c.character_set, v, <<>>)

decimal_to_base64(c, v) == Reverse(decimal_to_base64_loop(c.character_set, v, <<>>))

\* Base64::add_padding on a value under a config
RECURSIVE add_padding(_, _)
add_padding(c, v) ==
    IF is_some(c.pad) /\ Len(v) % 4 # 0
    THEN add_padding(c, Append(v, unwrap(c.pad)))
    ELSE v

\* Base64::default
Base64_default == [value |-> <<CH_A>>, conf |-> STANDARD]

\* new_random and set_random without their call of add_padding
random_value_unpadded(c, draws) ==
    SeqOf(LAMBDA i : decimal_to_base64_char(c.character_set, draws[i]), Len(draws))

\* new_random and set_random, given the 0..63 draws of the random source
random_value(c, draws) ==
    add_padding(c, SeqOf(LAMBDA i : decimal_to_base64_char(c.character_set, draws[i]),
                         Len(draws)))

\* the check new_from_string makes of one character
new_from_string_rejects(c, ch) ==
    \/ ~is_valid_base64(CH_NUL, c.character_set, ch)
    \/ (is_some(c.pad) /\ ~is_valid_base64(unwrap(c.pad), c.character_set, ch))

new_from_string(new, c) ==
    IF \E i \in 1..Len(new) : new_from_string_rejects(c, new[i])
    THEN Err("InvalidBase64CharacterError")
    ELSE Ok([value |-> add_padding(c, new), conf |-> c])

\* the check set_from_string makes of one character
set_from_string_accepts(c, ch) ==
    \/ (is_none(c.pad) /\ is_valid_base64(CH_NUL, c.character_set, ch))
    \/ (is_some(c.pad) /\ is_valid_base64(unwrap(c.pad), c.character_set, ch))

set_from_string_result(c, new) ==
    \A i \in 1..Len(new) : set_from_string_accepts(c, new[i])

\* set_from_string pushing into self.value, not into a local vector: a
\* rejected string leaves the characters accepted before the rejected one
set_from_string_value_in_place(c, v, new) ==
    IF set_from_string_result(c, new) THEN add_padding(c, new)
    ELSE SubSeq(new, 1, (CHOOSE i \in 1..Len(new) :
                           /\ ~set_from_string_accepts(c, new[i])
                           /\ \A j \in 1..(i - 1) : set_from_string_accepts(c, new[j])) - 1)

set_from_string_value(c, v, new) ==
    IF set_from_string_result(c, new) THEN add_padding(c, new) ELSE v

\* convert_to_new_config that pushes every character other than a pad as it is
convert_char_to_new_config_same_symbol(old, new, ch) ==
    IF is_some(old.pad) /\ ch = unwrap(old.pad)
    THEN IF is_some(new.pad) /\ unwrap(new.pad) # unwrap(old.pad)
         THEN <<unwrap(new.pad)>>
         ELSE <<>>
    ELSE <<ch>>

\* what convert_to_new_config pushes for one character of the value
convert_char_to_new_config(old, new, ch) ==
    IF is_some(old.pad) /\ ch = unwrap(old.pad)
    THEN IF is_some(new.pad) /\ unwrap(new.pad) = unwrap(old.pad) THEN <<>>
         ELSE IF is_some(new.pad) /\ unwrap(new.pad) # unwrap(old.pad)
         THEN <<unwrap(new.pad)>>
         ELSE <<>>
    ELSE <<decimal_to_base64_char(new.character_set,
                                  base64_char_to_decimal(old.character_set, ch))>>

RECURSIVE convert_to_new_config(_, _, _)
convert_to_new_config(old, new, v) ==
    IF v = <<>> THEN <<>>
    ELSE convert_char_to_new_config(old, new, Head(v))
         \o convert_to_new_config(old, new, Tail(v))

set_config_value(old, new, v) == add_padding(new, convert_to_new_config(old, new, v))

expand_to_value(c, v, len) ==
    LET pushed == v \o SeqOf(LAMBDA i : CH_A, IF Len(v) < len THEN len - Len(v) ELSE 0)
    IN  add_padding(c, Reverse(pushed))

\* truncate_to that pops from the unreversed value: the first len characters stay
truncate_to_value_keeps_front(c, v, len) ==
    IF len > 0 /\ Len(v) > len
    THEN add_padding(c, SubSeq(v, 1, len))
    ELSE v

\* reverse, pop down to len characters, reverse, add_padding
truncate_to_value(c, v, len) ==
    IF len > 0 /\ Len(v) > len
    THEN add_padding(c, Reverse(SubSeq(Reverse(v), 1, len)))
    ELSE v

\* PartialEq::eq
Base64_eq(x, y) ==
    /\ Len(x.value) = Len(y.value)
    /\ \A i \in 1..Len(x.value) : x.value[i] = y.value[i]

\* Ord::cmp
Base64_cmp(x, y) ==
    IF Len(x.value) # Len(y.value)
    THEN IF Len(x.value) < Len(y.value) THEN "Less" ELSE "Greater"
    ELSE LET differ == {i \in 1..Len(x.value) :
                          /\ x.value[i] # CH_NEWLINE
                          /\ y.value[i] # CH_NEWLINE
                          /\ x.value[i] # y.value[i]}
         IN  IF differ = {} THEN "Equal"
             ELSE LET i == CHOOSE k \in differ : \A j \in differ : k <= j
                      a == base64_char_to_decimal(x.conf.character_set, x.value[i])
                      b == base64_char_to_decimal(y.conf.character_set, y.value[i])
                  IN  IF a < b THEN "Less" ELSE IF a > b THEN "Greater" ELSE "Equal"

\* PartialOrd::lt, through partial_cmp
Base64_lt(x, y) == Base64_cmp(x, y) = "Less"

---------------------------------------------------------------------------
(* encode.rs *)

new_encode_unsigned(unsigned, c) ==
    [value |-> add_padding(c, IF ~U128IsZero(unsigned)
                              THEN decimal_to_base64(c, unsigned)
                              ELSE <<CH_A>>),
     conf |-> c]

encode_unsigned_value(c, unsigned) == new_encode_unsigned(unsigned, c).value

is_padding(s) == \A i \in 1..Len(s) : s[i] = CH_QUESTION

\* the eight bits of a byte, least significant first
convert_u8_to_binary_string_lsb_first(v) ==
    SeqOf(LAMBDA k : CH_0 + ((v \div (2 ^ (k - 1))) % 2), 8)

convert_u8_to_binary_string(v) ==
    SeqOf(LAMBDA k : CH_0 + ((v \div (2 ^ (8 - k))) % 2), 8)

RECURSIVE push_until_divisible(_, _, _)
push_until_divisible(binary, n, ch) ==
    IF Len(binary) % n # 0 THEN push_until_divisible(Append(binary, ch), n, ch)
    ELSE binary

RECURSIVE concat_u8_binary(_)
concat_u8_binary(s) ==
    IF s = <<>> THEN <<>>
    ELSE convert_u8_to_binary_string(Head(s)) \o concat_u8_binary(Tail(s))

convert_bytes_to_binary_string(s) ==
    push_until_divisible(push_until_divisible(concat_u8_binary(s), 6, CH_0),
                         24, CH_QUESTION)

RECURSIVE convert_6bit_to_u128(_)
convert_6bit_to_u128(s) ==
    IF s = <<>> THEN 0
    ELSE (IF Head(s) = CH_1 THEN 2 ^ (Len(s) - 1) ELSE 0) + convert_6bit_to_u128(Tail(s))

RECURSIVE encode_bytes_loop(_, _, _, _, _)
encode_bytes_loop(c, binary, i, count, b64_str) ==
    IF i > Len(binary) THEN b64_str
    ELSE LET group == SubSeq(binary, i, i + 5)
         IN  IF is_some(c.pad) /\ is_padding(group)
             THEN encode_bytes_loop(c, binary, i + 6, count,
                                    Append(b64_str, unwrap(c.pad)))
             ELSE LET b64_char == decimal_to_base64_char(c.character_set,
                                                         convert_6bit_to_u128(group))
                      ll == unwrap_or(c.line_length, 0)
                  IN  IF ll # 0 /\ count < ll
                      THEN encode_bytes_loop(c, binary, i + 6, count + 1,
                                             Append(b64_str, b64_char))
                      ELSE IF ll # 0 /\ count = ll
                      THEN encode_bytes_loop(c, binary, i + 6, 0,
                                             b64_str \o <<CH_NEWLINE, b64_char>>)
                      ELSE encode_bytes_loop(c, binary, i + 6, count,
                                             Append(b64_str, b64_char))

encode_bytes(c, s) == encode_bytes_loop(c, convert_bytes_to_binary_string(s), 1, 0, <<>>)

new_encode_bytes(s, c) == [value |-> encode_bytes(c, s), conf |-> c]

---------------------------------------------------------------------------
(* decode.rs *)

remove_padding(pad, v) ==
    IF is_some(pad) THEN SelectSeq(v, LAMBDA ch : ch # unwrap(pad)) ELSE v

convert_char_to_decimal(c, val, place) ==
    LET p == checked_pow(64, place)
    IN  IF is_none(p) THEN None
        ELSE checked_mul(base64_char_to_decimal(c.character_set, val), unwrap(p))

RECURSIVE decode_to_unsigned_loop(_, _, _, _)
decode_to_unsigned_loop(c, stripped_vec, i, dec) ==
    IF i > Len(stripped_vec) THEN Ok(dec)
    ELSE LET val == convert_char_to_decimal(c, stripped_vec[i], Len(stripped_vec) - i)
         IN  IF is_none(val) THEN Err("OverflowError")
             ELSE LET sum == checked_add(dec, unwrap(val))
                  IN  IF is_none(sum) THEN Err("OverflowError")
                      ELSE decode_to_unsigned_loop(c, stripped_vec, i + 1, unwrap(sum))

decode_to_unsigned(c, v) ==
    decode_to_unsigned_loop(c, remove_padding(c.pad, v), 1, U128Zero)

RECURSIVE convert_decimal_to_binary_digits(_)
convert_decimal_to_binary_digits(v) ==
    IF v = 0 THEN <<>>
    ELSE <<CH_0 + (v % 2)>> \o convert_decimal_to_binary_digits(v \div 2)

RECURSIVE push_until_len(_, _, _)
push_until_len(vec, n, ch) ==
    IF Len(vec) < n THEN push_until_len(Append(vec, ch), n, ch) ELSE vec

convert_decimal_to_binary(v) ==
    Reverse(push_until_len(convert_decimal_to_binary_digits(v), 6, CH_0))

RECURSIVE decode_bytes_binary(_, _)
decode_bytes_binary(c, s) ==
    IF s = <<>> THEN <<>>
    ELSE (IF is_some(c.pad) /\ Head(s) = unwrap(c.pad) THEN <<>>
          ELSE IF Head(s) # CH_SPACE /\ Head(s) # CH_NEWLINE
          THEN convert_decimal_to_binary(base64_char_to_decimal(c.character_set, Head(s)))
          ELSE <<>>)
         \o decode_bytes_binary(c, Tail(s))

is_8bit_all_0s(s) == \A i \in 1..Len(s) : s[i] = CH_0

RECURSIVE convert_8bit_to_u8(_)
convert_8bit_to_u8(s) ==
    IF s = <<>> THEN 0
    ELSE (IF Head(s) = CH_1 THEN 2 ^ (Len(s) - 1) ELSE 0) + convert_8bit_to_u8(Tail(s))

RECURSIVE decode_bytes_loop(_, _)
decode_bytes_loop(binary, i) ==
    IF i > Len(binary) THEN <<>>
    ELSE LET group == SubSeq(binary, i, i + 7)
         IN  (IF ~is_8bit_all_0s(group) THEN <<convert_8bit_to_u8(group)>> ELSE <<>>)
             \o decode_bytes_loop(binary, i + 8)

decode_bytes(c, s) ==
    decode_bytes_loop(push_until_divisible(decode_bytes_binary(c, s), 8, CH_0), 1)

decode_to_bytes(c, v) == decode_bytes(c, v)

---------------------------------------------------------------------------
(* Inputs shared by the specifications *)

RECURSIVE SeqsUpTo(_, _)
SeqsUpTo(S, n) ==
    IF n = 0 THEN {<<>>}
    ELSE LET shorter == SeqsUpTo(S, n - 1)
         IN  shorter \cup {Append(q, x) : q \in {r \in shorter : Len(r) = n - 1}, x \in S}

\* custom configs that wrap short outputs: Config::new(.., .., Some(2))
WRAP_PADDING == Config_new(STANDARD_SET, Some(CH_EQUALS), Some(2))[2]
WRAP_NO_PADDING == Config_new(URL_SAFE_SET, None, Some(2))[2]

---------------------------------------------------------------------------
(* Spec: a Base64 value built by a constructor, then changed by the        *)
(* mutators of lib.rs and encode.rs                                        *)

MaxLen == 3
MaxRandom == 1

\* a custom alphabet without 'A': '#' has the value 0, and the pad is '*'
CUSTOM == Config_new(<<35>> \o Tail(URL_SAFE_SET), Some(42), None)[2]

LifeConfigs == {STANDARD, URL_SAFE_NO_PADDING, WRAP_PADDING, CUSTOM}

LifeUnsigneds == {U128(0), U128(1), U128(64)}

LifeBytes == {<<>>, <<0>>, <<77>>, <<77, 1>>}

\* "", "ab\n", "a b=", "+-", "*#!"
LifeStrings == {<<>>, <<97, 98, CH_NEWLINE>>, <<97, CH_SPACE, 98, CH_EQUALS>>,
                <<43, 45>>, <<42, 35, 33>>}

\* what the random source may return for one draw
Draws == {0, 63}

LifeDraws == SeqsUpTo(Draws, MaxRandom)

Init ==
    /\ other = Base64_default
    /\ ret = None
    /\ \/ /\ value = Base64_default.value
          /\ conf = Base64_default.conf
          /\ call = <<"default">>
       \/ \E c \in LifeConfigs, u \in LifeUnsigneds :
            /\ value = new_encode_unsigned(u, c).value
            /\ conf = c
            /\ call = <<"new_encode_unsigned", u>>
       \/ \E c \in LifeConfigs, b \in LifeBytes :
            /\ value = new_encode_bytes(b, c).value
            /\ conf = c
            /\ call = <<"new_encode_bytes", b>>
       \/ \E c \in LifeConfigs, d \in LifeDraws :
            /\ value = random_value(c, d)
            /\ conf = c
            /\ call = <<"new_random", Len(d)>>
       \/ \E c \in LifeConfigs, str \in LifeStrings :
            /\ new_from_string(str, c)[1] = "Ok"
            /\ value = new_from_string(str, c)[2].value
            /\ conf = c
            /\ call = <<"new_from_string", str>>

EncodeUnsigned ==
    /\ \E u \in LifeUnsigneds :
        /\ value' = encode_unsigned_value(conf, u)
        /\ call' = <<"encode_unsigned", u>>
    /\ ret' = None
    /\ UNCHANGED <<conf, other>>

EncodeBytes ==
    /\ \E b \in LifeBytes :
        /\ value' = encode_bytes(conf, b)
        /\ call' = <<"encode_bytes", b>>
    /\ ret' = None
    /\ UNCHANGED <<conf, other>>

SetFromString ==
    /\ \E str \in LifeStrings :
        /\ value' = set_from_string_value(conf, value, str)
        /\ ret' = Some(set_from_string_result(conf, str))
        /\ call' = <<"set_from_string", str>>
    /\ UNCHANGED <<conf, other>>

SetRandom ==
    /\ \E d \in LifeDraws :
        /\ value' = random_value(conf, d)
        /\ call' = <<"set_random", Len(d)>>
    /\ ret' = None
    /\ UNCHANGED <<conf, other>>

SetConfig ==
    /\ \E c \in LifeConfigs :
        /\ value' = set_config_value(conf, c, value)
        /\ conf' = c
        /\ call' = <<"set_config", c>>
    /\ ret' = None
    /\ UNCHANGED other

ExpandTo ==
    /\ \E len \in 0..MaxLen :
        /\ value' = expand_to_value(conf, value, len)
        /\ call' = <<"expand_to", len>>
    /\ ret' = None
    /\ UNCHANGED <<conf, other>>

TruncateTo ==
    /\ \E len \in 0..MaxLen :
        /\ value' = truncate_to_value(conf, value, len)
        /\ call' = <<"truncate_to", len>>
    /\ ret' = None
    /\ UNCHANGED <<conf, other>>

Next ==
    \/ EncodeUnsigned \/ EncodeBytes \/ SetFromString \/ SetRandom
    \/ SetConfig \/ ExpandTo \/ TruncateTo

Spec == Init /\ [][Next]_vars

Mutators == {"encode_unsigned", "encode_bytes", "set_from_string", "set_random",
             "set_config", "expand_to", "truncate_to"}

\* C3: under a config with a pad symbol, after any public mutator the number
\* of characters of the value, line breaks not counted, is a multiple of 4.
C3_PaddingInvariant ==
    (call[1] \in Mutators /\ is_some(conf.pad)) =>
        Len(SelectSeq(value, LAMBDA ch : ch # CH_NEWLINE)) % 4 = 0

---------------------------------------------------------------------------
(* SpecBytes: new_encode_bytes applied to an input, then decode_to_bytes *)

MaxBytes == 4

ByteValues == {0, 1, 77, 255}

ByteSeqs == SeqsUpTo(ByteValues, MaxBytes)

BytesConfigs == CanonicalConfigs \cup {WRAP_PADDING, WRAP_NO_PADDING}


InitBytes ==
    /\ value = <<>>
    /\ conf \in BytesConfigs
    /\ other = Base64_default
    /\ \E b \in ByteSeqs : call = <<"input", b>>
    /\ ret = None

BytesEncode ==
    /\ call[1] = "input"
    /\ value' = new_encode_bytes(call[2], conf).value
    /\ call' = <<"new_encode_bytes", call[2]>>
    /\ UNCHANGED <<conf, other, ret>>

BytesDecode ==
    /\ call[1] = "new_encode_bytes"
    /\ ret' = decode_to_bytes(conf, value)
    /\ call' = <<"decode_to_bytes", call[2]>>
    /\ UNCHANGED <<value, conf, other>>

NextBytes == BytesEncode \/ BytesDecode

SpecBytes == InitBytes /\ [][NextBytes]_vars

---------------------------------------------------------------------------
(* Claims about the byte codec *)

\* C1: decoding the encoding of any byte sequence under a canonical config
\* gives the byte sequence back.
C1_RoundTripBytes ==
    (call[1] = "decode_to_bytes" /\ conf \in CanonicalConfigs) => ret = call[2]

\* the RFC 4648 encoding of one group of 1..3 bytes, by arithmetic on the
\* 24-bit number the group spells
RFC4648Group(b) ==
    LET n == b[1] * 65536 + (IF Len(b) >= 2 THEN b[2] * 256 ELSE 0)
                          + (IF Len(b) >= 3 THEN b[3] ELSE 0)
    IN  SeqOf(LAMBDA k : IF k <= Len(b) + 1
                         THEN STANDARD_SET[((n \div (64 ^ (4 - k))) % 64) + 1]
                         ELSE CH_EQUALS, 4)

RECURSIVE RFC4648(_)
RFC4648(b) ==
    IF b = <<>> THEN <<>>
    ELSE IF Len(b) <= 3 THEN RFC4648Group(b)
    ELSE RFC4648Group(SubSeq(b, 1, 3)) \o RFC4648(SubSeq(b, 4, Len(b)))

\* C5: under STANDARD, new_encode_bytes gives the RFC 4648 encoding, of
\* 4 * ceil(n / 3) characters.
C5_StandardIsRfc4648 ==
    (call[1] = "new_encode_bytes" /\ conf = STANDARD) =>
        /\ value = RFC4648(call[2])
        /\ Len(value) = 4 * ((Len(call[2]) + 2) \div 3)

C5_Witness ==
    /\ call[1] = "new_encode_bytes"
    /\ conf = STANDARD
    /\ Len(call[2]) = 4
    /\ value[Len(value)] = CH_EQUALS
    /\ value[1] # CH_A

NotLineBreaks(v) == SelectSeq(v, LAMBDA ch : ch # CH_NEWLINE)

\* C6: without a pad symbol, n bytes give exactly ceil(8n / 6) symbols, not
\* counting line breaks.
C6_NoPadSymbolCount ==
    (call[1] = "new_encode_bytes" /\ is_none(conf.pad)) =>
        Len(NotLineBreaks(value)) = (8 * Len(call[2]) + 5) \div 6

\* C7: with a line length L > 0, no line of the output of new_encode_bytes
\* holds more than L alphabet symbols.
C7_LineLengthBound ==
    (call[1] = "new_encode_bytes" /\ unwrap_or(conf.line_length, 0) > 0) =>
        \A i \in 1..Len(value) : \A j \in i..Len(value) :
            (\A k \in i..j : value[k] # CH_NEWLINE) =>
                Cardinality({k \in i..j : value[k] \in Range(conf.character_set)})
                    <= unwrap(conf.line_length)

---------------------------------------------------------------------------
(* SpecUnsigned: new_encode_unsigned applied to an input, then             *)
(* decode_to_unsigned or a comparison with the encoding of a second input  *)

MaxSmall == 20

Unsigneds ==
    {U128(n) : n \in 0..MaxSmall}
    \cup {U128(63), U128(64), U128(65), U128(4095), U128(4096), U128(65538),
          U128(2147483647), U128Pow2(64), U128Pow2(126), U128Pow2(127),
          [U128Max EXCEPT ![NLimbs] = (Limb \div 4) - 1], U128Max}

InitUnsigned ==
    /\ value = <<>>
    /\ conf \in CanonicalConfigs
    /\ other = Base64_default
    /\ \E a \in Unsigneds : call = <<"input", a>>
    /\ ret = None

UnsignedEncode ==
    /\ call[1] = "input"
    /\ value' = new_encode_unsigned(call[2], conf).value
    /\ call' = <<"new_encode_unsigned", call[2]>>
    /\ UNCHANGED <<conf, other, ret>>

UnsignedDecode ==
    /\ call[1] = "new_encode_unsigned"
    /\ ret' = decode_to_unsigned(conf, value)
    /\ call' = <<"decode_to_unsigned", call[2]>>
    /\ UNCHANGED <<value, conf, other>>

\* self < new_encode_unsigned(b, conf)
UnsignedLt ==
    /\ call[1] = "new_encode_unsigned"
    /\ \E b \in Unsigneds :
        /\ other' = new_encode_unsigned(b, conf)
        /\ ret' = Some(Base64_lt([value |-> value, conf |-> conf], other'))
        /\ call' = <<"lt", call[2], b>>
    /\ UNCHANGED <<value, conf>>

NextUnsigned == UnsignedEncode \/ UnsignedDecode \/ UnsignedLt

SpecUnsigned == InitUnsigned /\ [][NextUnsigned]_vars

---------------------------------------------------------------------------
(* Claims about the unsigned codec and the ordering *)

\* C2: under a canonical config, decoding the encoding of any v below 2^128
\* returns Ok(v), never OverflowError.
C2_RoundTripUnsigned ==
    call[1] = "decode_to_unsigned" => ret = Ok(call[2])

C2_Witness ==
    /\ call[1] = "decode_to_unsigned"
    /\ call[2] = U128Max
    /\ is_some(conf.pad)
    /\ Len(value) = 24
    /\ ret = Ok(U128Max)

\* C4: under a canonical config, the encoding of a is less than the encoding
\* of b exactly when a < b.
C4_OrderAgreesWithIntegers ==
    call[1] = "lt" => ret = Some(U128Less(call[2], call[3]))

---------------------------------------------------------------------------
(* SpecConfig: a Config made by Config::new, then changed by its setters   *)

\* STANDARD_SET with its last characters replaced
WithLast(set, tail) == SubSeq(set, 1, Len(set) - Len(tail)) \o tail

CharSets ==
    {STANDARD_SET, URL_SAFE_SET,
     SubSeq(STANDARD_SET, 1, 63),                  \* 63 characters
     WithLast(STANDARD_SET, <<CH_A>>),             \* 'A' twice
     WithLast(STANDARD_SET, <<CH_SPACE>>),         \* a space
     WithLast(STANDARD_SET, <<CH_DEL, CH_DEL>>),   \* DEL twice
     WithLast(STANDARD_SET, <<128512>>),           \* U+1F600
     SubSeq(WithLast(STANDARD_SET, <<CH_SPACE, CH_SPACE>>), 2, 64)}

\* no pad, '=', '/', ' ', U+1F600
Pads == {None, Some(CH_EQUALS), Some(47), Some(CH_SPACE), Some(128512)}

LineLengths == {None, Some(76)}

InitConfig ==
    /\ value = <<>>
    /\ other = Base64_default
    /\ \E set \in CharSets, pad_char \in Pads, len \in LineLengths :
        /\ Config_new(set, pad_char, len)[1] = "Ok"
        /\ conf = Config_new(set, pad_char, len)[2]
        /\ call = <<"Config::new", set, pad_char, len>>
        /\ ret = Config_new(set, pad_char, len)

\* let c = Config::new(..): on Err the config at hand stays
ConfigNew ==
    /\ \E set \in CharSets, pad_char \in Pads, len \in LineLengths :
        /\ ret' = Config_new(set, pad_char, len)
        /\ conf' = IF ret'[1] = "Ok" THEN ret'[2] ELSE conf
        /\ call' = <<"Config::new", set, pad_char, len>>
    /\ UNCHANGED <<value, other>>

ConfigSetCharacterSet ==
    /\ \E set \in CharSets :
        /\ ret' = set_character_set_result(conf, set)
        /\ conf' = set_character_set_config(conf, set)
        /\ call' = <<"set_character_set", set>>
    /\ UNCHANGED <<value, other>>

ConfigSetPadding ==
    /\ \E pad_char \in Pads :
        /\ ret' = set_padding_result(conf, pad_char)
        /\ conf' = set_padding_config(conf, pad_char)
        /\ call' = <<"set_padding", pad_char>>
    /\ UNCHANGED <<value, other>>

ConfigSetLineLength ==
    /\ \E len \in LineLengths :
        /\ ret' = None
        /\ conf' = set_line_length_config(conf, len)
        /\ call' = <<"set_line_length", len>>
    /\ UNCHANGED <<value, other>>

NextConfig ==
    ConfigNew \/ ConfigSetCharacterSet \/ ConfigSetPadding \/ ConfigSetLineLength

SpecConfig == InitConfig /\ [][NextConfig]_vars

---------------------------------------------------------------------------
(* Claims about Config *)

HasDuplicates(set) == Cardinality(Range(set)) # Len(set)

\* the result the five rules of Config::new give, the first violated one winning
FirstViolatedRule(set, pad_char, len) ==
    IF Len(set) # 64 THEN Err("CharacterSetLengthError")
    ELSE IF pad_char # None /\ pad_char[1] \in Range(set)
    THEN Err("NotUniquePaddingError")
    ELSE IF \E x \in Range(set) : ~is_representable(x)
    THEN Err("CharacterSetUnrepresentableCharacter")
    ELSE IF pad_char # None /\ ~is_representable(pad_char[1])
    THEN Err("PaddingUnrepresentableCharacter")
    ELSE IF HasDuplicates(set) THEN Err("DuplicateCharacterError")
    ELSE Ok([character_set |-> set, pad |-> pad_char, line_length |-> len])

C9_SetPaddingValidates ==
    call[1] = "set_padding" =>
        IF call[2] = None THEN ret = Ok(<<>>) /\ conf.pad = None
        ELSE IF call[2][1] \in Range(conf.character_set)
        THEN ret = Err("NotUniquePaddingError")
        ELSE IF ~is_representable(call[2][1])
        THEN ret = Err("PaddingUnrepresentableCharacter")
        ELSE ret = Ok(<<>>) /\ conf.pad = call[2]

\* C10: a Config always has 64 distinct representable characters, and its
\* pad, when set, is representable and not one of them.
C10_ConfigInvariant ==
    /\ Len(conf.character_set) = 64
    /\ ~HasDuplicates(conf.character_set)
    /\ \A x \in Range(conf.character_set) : is_representable(x)
    /\ conf.pad # None =>
        /\ is_representable(conf.pad[1])
        /\ conf.pad[1] \notin Range(conf.character_set)

---------------------------------------------------------------------------
(* SpecChar: is_representable applied to a code point *)

MaxChar == 160

\* U+0000..U+00A0, then code points above U+FFFF whose low 16 bits are 0, 10,
\* 32, 127, 128 and 0xF600, and the last code point
Chars == (0..MaxChar) \cup {65536, 65546, 65568, 65663, 65664, 128512, 1114111}

InitChar ==
    /\ value = <<>>
    /\ conf = STANDARD
    /\ other = Base64_default
    /\ \E c \in Chars : call = <<"input", c>>
    /\ ret = None

CharIsRepresentable ==
    /\ call[1] = "input"
    /\ ret' = Some(is_representable(call[2]))
    /\ call' = <<"is_representable", call[2]>>
    /\ UNCHANGED <<value, conf, other>>

NextChar == CharIsRepresentable

SpecChar == InitChar /\ [][NextChar]_vars

\* C11: a code point c, above U+FFFF or not, is representable exactly when
\* c > 31, c is not 127, c is not the space and c is not a control character.
C11_Representable ==
    call[1] = "is_representable" =>
        ret = Some(/\ call[2] > 31
                   /\ call[2] # 127
                   /\ call[2] # 32
                   /\ ~is_control(call[2]))

---------------------------------------------------------------------------
(* SpecString: a string given to new_from_string, then to set_from_string  *)
(* on a value of the same config                                           *)

MaxStr == 3

\* 'a', '=', '\n', ' ', '\0', '*' (the pad of CUSTOM), '#' (its symbol 0)
StringChars == {97, CH_EQUALS, CH_NEWLINE, CH_SPACE, CH_NUL, 42, 35}

Strings == SeqsUpTo(StringChars, MaxStr)

InitString ==
    /\ conf \in LifeConfigs
    /\ value = new_encode_unsigned(U128(1), conf).value
    /\ other = Base64_default
    /\ \E str \in Strings : call = <<"input", str>>
    /\ ret = None

\* let other = Base64::new_from_string(str, conf)
StringNewFromString ==
    /\ call[1] = "input"
    /\ ret' = new_from_string(call[2], conf)
    /\ other' = IF ret'[1] = "Ok" THEN ret'[2] ELSE other
    /\ call' = <<"new_from_string", call[2]>>
    /\ UNCHANGED <<value, conf>>

\* self.set_from_string(str); the call record keeps how the constructor ended
StringSetFromString ==
    /\ call[1] = "new_from_string"
    /\ value' = set_from_string_value(conf, value, call[2])
    /\ ret' = Some(set_from_string_result(conf, call[2]))
    /\ call' = <<"set_from_string", call[2], ret[1]>>
    /\ UNCHANGED <<conf, other>>

NextString == StringNewFromString \/ StringSetFromString

SpecString == InitString /\ [][NextString]_vars

\* the characters the string constructor is to accept under a config
AcceptedChar(c, ch) ==
    \/ (c.pad # None /\ ch = c.pad[1])
    \/ ch = CH_NEWLINE
    \/ ch = CH_SPACE
    \/ ch \in Range(c.character_set)

\* the pads the padding policy asks for after a string: up to a multiple of 4
\* characters, line breaks not counted
PadsRequired(c, str) ==
    IF c.pad = None THEN <<>>
    ELSE SeqOf(LAMBDA i : c.pad[1],
               (4 - (Len(SelectSeq(str, LAMBDA ch : ch # CH_NEWLINE)) % 4)) % 4)

\* C12: new_from_string is Ok exactly when every character is the pad, a
\* newline, a space or a symbol of the character set, and is
\* InvalidBase64CharacterError otherwise; on Ok the value is the string
\* followed by the pads the padding policy requires.
C12_NewFromStringValidates ==
    call[1] = "new_from_string" =>
        IF \A i \in 1..Len(call[2]) : AcceptedChar(conf, call[2][i])
        THEN /\ ret[1] = "Ok"
             /\ ret[2].value = call[2] \o PadsRequired(conf, call[2])
        ELSE ret = Err("InvalidBase64CharacterError")

\* C13: set_from_string returns true exactly when new_from_string returns Ok
\* for the same string and config, and then both give the same value.
C13_SetFromStringAsConstructor ==
    call[1] = "set_from_string" =>
        /\ ret = Some(call[3] = "Ok")
        /\ call[3] = "Ok" => (value = other.value /\ conf = other.conf)

---------------------------------------------------------------------------
(* Claims about the unsigned encoders in Spec *)

\* C14: new_encode_unsigned and encode_unsigned of 0 give the symbol the
\* config's character set has at index 0, followed only by the pads the
\* padding policy requires.
C14_ZeroIsSymbolZero ==
    (call[1] \in {"new_encode_unsigned", "encode_unsigned"} /\ call[2] = U128(0)) =>
        value = <<conf.character_set[1]>>
                    \o SeqOf(LAMBDA i : conf.pad[1], IF conf.pad = None THEN 0 ELSE 3)

---------------------------------------------------------------------------
(* SpecCall: a value built by a constructor, or by set_from_string on the  *)
(* default value, then one call of expand_to, truncate_to or set_config;   *)
(* the call record keeps the receiver as it was before the call            *)

MaxCallLen == 6

CallConfigs == {URL_SAFE_NO_PADDING, URL_SAFE_PADDING, STANDARD, CUSTOM}

\* 0, 1, 62, 63, 64 ("BA"), 65538 ("QAC"), 64^4 ("BAAAA")
CallUnsigneds == {U128(0), U128(1), U128(62), U128(63), U128(64), U128(65538),
                  U128(16777216)}

\* "", "abcd", "abcde", "a b", "ab\n"
CallStrings == {<<>>, <<97, 98, 99, 100>>, <<97, 98, 99, 100, 101>>,
                <<97, CH_SPACE, 98>>, <<97, 98, CH_NEWLINE>>}

\* "a=====", "ab=": more pads than the policy asks for, and fewer
CallPaddedStrings == {<<97, CH_EQUALS, CH_EQUALS, CH_EQUALS, CH_EQUALS, CH_EQUALS>>,
                      <<97, 98, CH_EQUALS>>}

InitCall ==
    /\ other = Base64_default
    /\ ret = None
    /\ conf \in CallConfigs
    /\ \/ \E str \in CallPaddedStrings :
            /\ conf = Base64_default.conf
            /\ value = set_from_string_value(conf, Base64_default.value, str)
            /\ call = <<"set_from_string", str>>
       \/ \E u \in CallUnsigneds :
            /\ value = new_encode_unsigned(u, conf).value
            /\ call = <<"new_encode_unsigned", u>>
       \/ \E str \in CallStrings :
            /\ new_from_string(str, conf)[1] = "Ok"
            /\ value = new_from_string(str, conf)[2].value
            /\ call = <<"new_from_string", str>>

Constructed == call[1] \in {"new_encode_unsigned", "new_from_string", "set_from_string"}

CallExpandTo ==
    /\ Constructed
    /\ \E len \in 0..MaxCallLen :
        /\ value' = expand_to_value(conf, value, len)
        /\ call' = <<"expand_to", len, value>>
    /\ ret' = None
    /\ UNCHANGED <<conf, other>>

CallTruncateTo ==
    /\ Constructed
    /\ \E len \in 0..MaxCallLen :
        /\ value' = truncate_to_value(conf, value, len)
        /\ call' = <<"truncate_to", len, value>>
    /\ ret' = None
    /\ UNCHANGED <<conf, other>>

CallSetConfig ==
    /\ Constructed
    /\ \E c \in CallConfigs :
        /\ value' = set_config_value(conf, c, value)
        /\ conf' = c
        /\ call' = <<"set_config", c, value, conf>>
    /\ ret' = None
    /\ UNCHANGED other

NextCall == CallExpandTo \/ CallTruncateTo \/ CallSetConfig

SpecCall == InitCall /\ [][NextCall]_vars

\* n copies of a character
Copies(ch, n) == SeqOf(LAMBDA i : ch, n)

\* C15: under a config without pad, expand_to(n) of k < n symbols gives n - k
\* copies of the symbol of index 0 followed by the k symbols in their order,
\* and decode_to_unsigned gives what it gave before.
C15_ExpandToPrependsZeros ==
    (call[1] = "expand_to" /\ conf.pad = None /\ call[2] > Len(call[3])) =>
        /\ value = Copies(conf.character_set[1], call[2] - Len(call[3])) \o call[3]
        /\ decode_to_unsigned(conf, value) = decode_to_unsigned(conf, call[3])

\* C16: expand_to(n) of a value of n or more characters leaves the value as
\* it was.
C16_ExpandToNoOp ==
    (call[1] = "expand_to" /\ call[2] <= Len(call[3])) => value = call[3]

\* C17: under a config without pad, truncate_to(n) of k symbols with
\* 0 < n < k leaves the last n symbols in their order; truncate_to(0) and
\* truncate_to(n) with n >= k leave the value as it was.
C17_TruncateToKeepsLast ==
    (call[1] = "truncate_to" /\ conf.pad = None) =>
        LET n == call[2]
            k == Len(call[3])
        IN  IF 0 < n /\ n < k
            THEN /\ Len(value) = n
                 /\ \A i \in 1..n : value[i] = call[3][k - n + i]
            ELSE value = call[3]

\* "abcd" truncated to 1 is "d"
C17_Witness ==
    /\ call[1] = "truncate_to"
    /\ conf = URL_SAFE_NO_PADDING
    /\ call[2] = 1
    /\ call[3] = <<97, 98, 99, 100>>
    /\ value = <<100>>

\* the characters of a value that are not the pad
NonPad(c, v) == SelectSeq(v, LAMBDA ch : ch # c.pad[1])

\* pads up to the next multiple of 4 after n characters
PadsAfter(c, n) == Copies(c.pad[1], (4 - (n % 4)) % 4)

\* C18: under a config with pad, truncate_to(n) of a value with d symbols
\* other than the pad leaves the value as it was when n >= d, and when
\* 0 < n < d gives the last n of these symbols followed by pads up to a
\* multiple of 4.
C18_TruncateToKeepsData ==
    (call[1] = "truncate_to" /\ conf.pad # None) =>
        LET n == call[2]
            data == NonPad(conf, call[3])
            d == Len(data)
        IN  /\ n >= d => value = call[3]
            /\ (0 < n /\ n < d) =>
                   value = SubSeq(data, d - n + 1, d) \o PadsAfter(conf, n)

\* the index a symbol has in a character set
IndexIn(set, ch) == CHOOSE i \in 1..Len(set) : set[i] = ch

\* a value of symbols of the config's character set followed only by pads
SymbolsThenPads(c, v) ==
    \E d \in 0..Len(v) :
        /\ \A i \in 1..d : v[i] \in Range(c.character_set)
        /\ \A i \in (d + 1)..Len(v) : c.pad # None /\ v[i] = c.pad[1]

---------------------------------------------------------------------------
(* SpecDecode: decode_to_unsigned applied to a value built by              *)
(* new_from_string from symbols of the character set                       *)

MaxTail == 22

DecodeConfigs == {URL_SAFE_NO_PADDING, STANDARD}

\* a symbol of index 0, 1, 3, 4 or 63, then up to MaxTail symbols of index 0,
\* or of index 63; and "zzz"
DecodeStrings(c) ==
    {<<c.character_set[h + 1]>> \o SeqOf(LAMBDA i : c.character_set[b + 1], m) :
        h \in {0, 1, 3, 4, 63}, b \in {0, 63}, m \in 0..MaxTail}
    \cup {<<122, 122, 122>>}

InitDecode ==
    /\ conf \in DecodeConfigs
    /\ other = Base64_default
    /\ ret = None
    /\ \E str \in DecodeStrings(conf) :
        /\ value = new_from_string(str, conf)[2].value
        /\ call = <<"new_from_string", str>>

DecodeToUnsigned ==
    /\ call[1] = "new_from_string"
    /\ ret' = decode_to_unsigned(conf, value)
    /\ call' = <<"decode_to_unsigned", call[2]>>
    /\ UNCHANGED <<value, conf, other>>

NextDecode == DecodeToUnsigned

SpecDecode == InitDecode /\ [][NextDecode]_vars

\* the index of the symbol 64^p is multiplied with: the p-th from the right
DigitAt(c, symbols, p) ==
    IF p < Len(symbols)
    THEN IndexIn(c.character_set, symbols[Len(symbols) - p]) - 1
    ELSE 0

\* bit k of the sum of index * 64^p: base-64 digits do not overlap
SumBit(c, symbols, k) == (DigitAt(c, symbols, k \div 6) \div (2 ^ (k % 6))) % 2

\* the sum as a u128: limb j holds bits 16 (j - 1) .. 16 (j - 1) + 15
SumLimbs(c, symbols) ==
    SeqOf(LAMBDA j : LET b(k) == SumBit(c, symbols, 16 * (j - 1) + k) * (2 ^ k)
                     IN  b(0) + b(1) + b(2) + b(3) + b(4) + b(5) + b(6) + b(7)
                         + b(8) + b(9) + b(10) + b(11) + b(12) + b(13) + b(14) + b(15),
          8)

\* every power 64^p and every product index * 64^p is below 2^128; the sum
\* then is too, its bits being those of the products
SumFits(c, symbols) ==
    \A p \in 0..(Len(symbols) - 1) :
        /\ 6 * p < 128
        /\ \A k \in 0..5 : (6 * p + k >= 128) => SumBit(c, symbols, 6 * p + k) = 0

\* C20: decode_to_unsigned strips the pads and returns Ok of the sum of
\* index * 64^place over the remaining symbols when every power, product and
\* partial sum fits 128 bits, and OverflowError otherwise.
C20_DecodeIsCheckedSum ==
    call[1] = "decode_to_unsigned" =>
        LET symbols == SelectSeq(value, LAMBDA ch : ch \in Range(conf.character_set))
        IN  IF SumFits(conf, symbols)
            THEN ret = Ok(SumLimbs(conf, symbols))
            ELSE ret = Err("OverflowError")

\* 22 symbols that spell 2^128 - 1, under the padded config
C20_Witness ==
    /\ call[1] = "decode_to_unsigned"
    /\ conf = STANDARD
    /\ Len(value) = 24
    /\ Len(call[2]) = 22
    /\ ret = Ok(U128Max)

---------------------------------------------------------------------------
(* The places where the code can panic: an index into a character set, a   *)
(* slice of a binary string, an unwrap, and unchecked integer arithmetic   *)

U8_MAX == 255

\* a[value as usize] of decimal_to_base64_char does not panic
index_in_bounds(a, v) == v \in 0..(Len(a) - 1)

\* every &binary[i..i + width] of a loop over (0..binary.len()).step_by(width)
\* is inside binary
slices_in_bounds(binary, width) ==
    \A i \in {j \in 0..(Len(binary) - 1) : j % width = 0} : i + width <= Len(binary)

\* the indexes decimal_to_base64 passes to decimal_to_base64_char
decimal_to_base64_in_bounds(c, v) == index_in_bounds(c.character_set, U128Mod64(v))

\* generate_base64 with the draw the random source returned
generate_base64_in_bounds(c, draws) ==
    \A i \in 1..Len(draws) : index_in_bounds(c.character_set, draws[i])

\* encode_bytes: its slices, its index into the character set for every
\* group that is not pushed as a pad, its unwraps of the line length, and
\* its u8 count, which grows only below the line length
encode_bytes_no_panic(c, s) ==
    LET binary == convert_bytes_to_binary_string(s)
    IN  /\ slices_in_bounds(binary, 6)
        /\ \A i \in {j \in 0..(Len(binary) - 1) : j % 6 = 0} :
             LET group == SubSeq(binary, i + 1, i + 6)
             IN  ~(is_some(c.pad) /\ is_padding(group)) =>
                     index_in_bounds(c.character_set, convert_6bit_to_u128(group))
        /\ unwrap_or(c.line_length, 0) # 0 =>
             /\ is_some(c.line_length)
             /\ unwrap(c.line_length) <= U8_MAX

\* decode_bytes: its slices, and the u8 sum of convert_8bit_to_u8
decode_bytes_no_panic(c, v) ==
    LET binary == push_until_divisible(decode_bytes_binary(c, v), 8, CH_0)
    IN  /\ slices_in_bounds(binary, 8)
        /\ \A i \in {j \in 0..(Len(binary) - 1) : j % 8 = 0} :
             convert_8bit_to_u8(SubSeq(binary, i + 1, i + 8)) <= U8_MAX

\* convert_to_new_config: the index into the new character set for every
\* character that is not the old pad, and its unwraps of the pads
convert_to_new_config_no_panic(old, new, v) ==
    \A i \in 1..Len(v) :
        IF is_some(old.pad) /\ v[i] = unwrap(old.pad) THEN TRUE
        ELSE index_in_bounds(new.character_set,
                             base64_char_to_decimal(old.character_set, v[i]))

\* eq and cmp: other.value[i] for every i below self.value.len(), which they
\* reach only for values of one length
cmp_no_panic(x, y) ==
    Len(x.value) = Len(y.value) => \A i \in 1..Len(x.value) : i <= Len(y.value)

\* decode_to_unsigned: stripped_vec.len() - (i + 1) does not underflow; its
\* power, product and sum are checked
decode_to_unsigned_no_panic(c, v) ==
    LET stripped_vec == remove_padding(c.pad, v)
    IN  \A i \in 0..(Len(stripped_vec) - 1) : Len(stripped_vec) - (i + 1) >= 0

\* C21: the library never panics: at every value a sequence of constructors
\* and mutators reaches, every call of a constructor, a mutator, a decoder or
\* a comparison indexes the character set inside 0..63, slices inside its
\* binary string, unwraps only a present value and overflows no integer.
C21_NeverPanics ==
    LET self == [value |-> value, conf |-> conf]
    IN  /\ Len(conf.character_set) = 64
        /\ \A u \in LifeUnsigneds : decimal_to_base64_in_bounds(conf, u)
        /\ \A b \in LifeBytes : encode_bytes_no_panic(conf, b)
        /\ \A d \in LifeDraws : generate_base64_in_bounds(conf, d)
        /\ \A c \in LifeConfigs : convert_to_new_config_no_panic(conf, c, value)
        /\ decode_bytes_no_panic(conf, value)
        /\ decode_to_unsigned_no_panic(conf, value)
        /\ cmp_no_panic(self, other) /\ cmp_no_panic(other, self)

\* a wrapped value with a line break and a pad, which set_config and the
\* decoders then read
C21_Witness ==
    /\ call[1] = "encode_bytes"
    /\ conf = WRAP_PADDING
    /\ CH_NEWLINE \in Range(value)
    /\ value[Len(value)] = CH_EQUALS

---------------------------------------------------------------------------
(* SpecRandom: new_random with the draws of the random source, then        *)
(* set_random with other draws                                             *)

MaxDraws == 5

RandomDraws == SeqsUpTo(Draws, MaxDraws)

InitRandom ==
    /\ value = <<>>
    /\ conf \in LifeConfigs
    /\ other = Base64_default
    /\ \E d \in RandomDraws : call = <<"input", d>>
    /\ ret = None

RandomNew ==
    /\ call[1] = "input"
    /\ value' = random_value(conf, call[2])
    /\ call' = <<"new_random", Len(call[2])>>
    /\ UNCHANGED <<conf, other, ret>>

RandomSet ==
    /\ call[1] = "new_random"
    /\ \E d \in RandomDraws :
        /\ value' = random_value(conf, d)
        /\ call' = <<"set_random", Len(d)>>
    /\ UNCHANGED <<conf, other, ret>>

NextRandom == RandomNew \/ RandomSet

SpecRandom == InitRandom /\ [][NextRandom]_vars

\* C22: new_random(len, conf) and set_random(len) give exactly len characters
\* without a pad and the smallest multiple of 4 that is at least len with a
\* pad; the first len characters are symbols of the character set and the
\* remaining ones are the pad.
C22_RandomLength ==
    call[1] \in {"new_random", "set_random"} =>
        /\ Len(value) = IF conf.pad = None THEN call[2]
                        ELSE 4 * ((call[2] + 3) \div 4)
        /\ \A i \in 1..Len(value) :
             IF i <= call[2] THEN value[i] \in Range(conf.character_set)
             ELSE conf.pad # None /\ value[i] = conf.pad[1]

\* five random symbols followed by three pads
C22_Witness ==
    /\ call = <<"set_random", 5>>
    /\ conf.pad # None
    /\ Len(value) = 8
    /\ value[5] # value[6]
    /\ value[6] = conf.pad[1]

---------------------------------------------------------------------------
(* SpecEncoded: a value built by an encoding constructor or by new_random, *)
(* then changed by the mutators other than set_from_string                 *)

InitEncoded ==
    /\ Init
    /\ call[1] \in {"new_encode_unsigned", "new_encode_bytes", "new_random"}

NextEncoded ==
    \/ EncodeUnsigned \/ EncodeBytes \/ SetRandom
    \/ SetConfig \/ ExpandTo \/ TruncateTo

SpecEncoded == InitEncoded /\ [][NextEncoded]_vars

\* C23: every character of a value built by new_encode_unsigned,
\* new_encode_bytes or new_random and changed by encode_unsigned,
\* encode_bytes, set_random, set_config, expand_to and truncate_to is a
\* symbol of the current config's character set, that config's pad, or a
\* line break.
C23_AlphabetClosure ==
    \A i \in 1..Len(value) :
        \/ value[i] \in Range(conf.character_set)
        \/ (conf.pad # None /\ value[i] = conf.pad[1])
        \/ value[i] = CH_NEWLINE

\* C24: under a config with a pad, in a value built by an encoding
\* constructor and changed by those mutators, no pad symbol is followed by a
\* symbol that is not the pad.
C24_PadsAreSuffix ==
    conf.pad # None =>
        \A i \in 1..Len(value) : \A j \in (i + 1)..Len(value) :
            value[i] = conf.pad[1] => value[j] = conf.pad[1]

---------------------------------------------------------------------------
(* SpecReconfig: new_encode_bytes applied to an input, decode_to_bytes,    *)
(* then set_config and decode_to_bytes again                               *)

MaxReBytes == 3

ReconfigBytes == SeqsUpTo({0, 1, 77, 255}, MaxReBytes)

InitReconfig ==
    /\ value = <<>>
    /\ conf \in BytesConfigs
    /\ other = Base64_default
    /\ \E b \in ReconfigBytes : call = <<"input", b>>
    /\ ret = None

ReconfigEncode ==
    /\ call[1] = "input"
    /\ value' = new_encode_bytes(call[2], conf).value
    /\ call' = <<"new_encode_bytes", call[2]>>
    /\ UNCHANGED <<conf, other, ret>>

ReconfigDecode ==
    /\ call[1] = "new_encode_bytes"
    /\ ret' = decode_to_bytes(conf, value)
    /\ call' = <<"decode_to_bytes", call[2], conf>>
    /\ UNCHANGED <<value, conf, other>>

\* the call record keeps what decode_to_bytes returned before the call
ReconfigSetConfig ==
    /\ call[1] = "decode_to_bytes"
    /\ \E c \in BytesConfigs :
        /\ value' = set_config_value(conf, c, value)
        /\ conf' = c
        /\ call' = <<"set_config", call[2], call[3], ret>>
    /\ ret' = None
    /\ UNCHANGED other

ReconfigDecodeAgain ==
    /\ call[1] = "set_config"
    /\ ret' = decode_to_bytes(conf, value)
    /\ call' = <<"decode_to_bytes after set_config", call[2], call[3], call[4]>>
    /\ UNCHANGED <<value, conf, other>>

NextReconfig ==
    ReconfigEncode \/ ReconfigDecode \/ ReconfigSetConfig \/ ReconfigDecodeAgain

SpecReconfig == InitReconfig /\ [][NextReconfig]_vars

\* C25: the value new_encode_bytes(b, c1) gives, c1 with or without a line
\* length that wraps it, has the same decode_to_bytes result after
\* set_config(c2) as before.
C25_SetConfigKeepsBytes ==
    call[1] = "decode_to_bytes after set_config" => ret = call[4]

---------------------------------------------------------------------------
(* SpecCompare: two values built by the constructors, under the same or    *)
(* different configs, then cmp and eq                                      *)

MaxCompare == 2

CompareConfigs == {STANDARD, URL_SAFE_PADDING, URL_SAFE_NO_PADDING, WRAP_PADDING}

\* "AB", "A\nB", "BA==", "B A"
CompareStrings == {<<CH_A, 66>>, <<CH_A, CH_NEWLINE, 66>>,
                   <<66, CH_A, CH_EQUALS, CH_EQUALS>>, <<66, CH_SPACE, CH_A>>}

CompareValues ==
    {new_encode_unsigned(U128(u), c) : u \in (0..MaxCompare) \cup {62, 64}, c \in CompareConfigs}
    \cup {new_encode_bytes(b, c) : b \in {<<77, 1>>}, c \in CompareConfigs}
    \cup UNION {{new_from_string(str, c)[2] :
                   str \in {s \in CompareStrings : new_from_string(s, c)[1] = "Ok"}} :
                c \in CompareConfigs}

InitCompare ==
    /\ \E x \in CompareValues : value = x.value /\ conf = x.conf
    /\ other \in CompareValues
    /\ call = <<"input">>
    /\ ret = None

\* self.cmp(&other)
CompareCmp ==
    /\ call[1] = "input"
    /\ ret' = Some(Base64_cmp([value |-> value, conf |-> conf], other))
    /\ call' = <<"cmp">>
    /\ UNCHANGED <<value, conf, other>>

\* self == other; the call record keeps what cmp returned
CompareEq ==
    /\ call[1] = "cmp"
    /\ ret' = Some(Base64_eq([value |-> value, conf |-> conf], other))
    /\ call' = <<"eq", ret[1]>>
    /\ UNCHANGED <<value, conf, other>>

NextCompare == CompareCmp \/ CompareEq

SpecCompare == InitCompare /\ [][NextCompare]_vars

---------------------------------------------------------------------------
(* SpecExpand: new_encode_unsigned under URL_SAFE_NO_PADDING, then         *)
(* expand_to and decode_to_unsigned                                        *)

MaxExpand == 23

ExpandUnsigneds ==
    {U128(0), U128(1), U128(63), U128(64), U128(4095), U128Pow2(127), U128Max}

InitExpand ==
    /\ conf = URL_SAFE_NO_PADDING
    /\ other = Base64_default
    /\ ret = None
    /\ \E v \in ExpandUnsigneds :
        /\ value = new_encode_unsigned(v, conf).value
        /\ call = <<"new_encode_unsigned", v>>

ExpandExpandTo ==
    /\ call[1] = "new_encode_unsigned"
    /\ \E n \in 0..MaxExpand :
        /\ value' = expand_to_value(conf, value, n)
        /\ call' = <<"expand_to", call[2], n>>
    /\ UNCHANGED <<conf, other, ret>>

ExpandDecode ==
    /\ call[1] = "expand_to"
    /\ ret' = decode_to_unsigned(conf, value)
    /\ call' = <<"decode_to_unsigned", call[2], call[3]>>
    /\ UNCHANGED <<value, conf, other>>

NextExpand == ExpandExpandTo \/ ExpandDecode

SpecExpand == InitExpand /\ [][NextExpand]_vars

\* C27: leading zero symbols never make decode_to_unsigned fail: for every v
\* and n, new_encode_unsigned(v, URL_SAFE_NO_PADDING) followed by
\* expand_to(n) still decodes to Ok(v).
C27_LeadingZerosDecode ==
    call[1] = "decode_to_unsigned" => ret = Ok(call[2])

---------------------------------------------------------------------------
(* SpecWhitespace: a string with newlines and spaces and the same string   *)
(* without them, both given to new_from_string and decode_to_unsigned      *)

MaxWs == 3

\* 'B', 'a', '\n', ' '
WsStrings == SeqsUpTo({66, 97, CH_NEWLINE, CH_SPACE}, MaxWs)

WithoutWhitespace(str) == SelectSeq(str, LAMBDA ch : ch # CH_NEWLINE /\ ch # CH_SPACE)

InitWhitespace ==
    /\ conf \in DecodeConfigs
    /\ ret = None
    /\ \E str \in WsStrings :
        /\ new_from_string(str, conf)[1] = "Ok"
        /\ value = new_from_string(str, conf)[2].value
        /\ other = new_from_string(WithoutWhitespace(str), conf)[2]
        /\ call = <<"new_from_string", str>>

WhitespaceDecode ==
    /\ call[1] = "new_from_string"
    /\ ret' = decode_to_unsigned(conf, value)
    /\ call' = <<"decode_to_unsigned", call[2]>>
    /\ UNCHANGED <<value, conf, other>>

\* other.decode_to_unsigned(); the call record keeps what self returned
WhitespaceDecodeOther ==
    /\ call[1] = "decode_to_unsigned"
    /\ ret' = decode_to_unsigned(other.conf, other.value)
    /\ call' = <<"other.decode_to_unsigned", call[2], ret>>
    /\ UNCHANGED <<value, conf, other>>

NextWhitespace == WhitespaceDecode \/ WhitespaceDecodeOther

SpecWhitespace == InitWhitespace /\ [][NextWhitespace]_vars

\* C28: for every string new_from_string accepts, decode_to_unsigned gives
\* the same result for the string as for the string with all newlines and
\* spaces removed.
C28_DecodeIgnoresWhitespace ==
    call[1] = "other.decode_to_unsigned" => ret = call[3]

---------------------------------------------------------------------------
(* Claims about what a rejected call leaves behind *)

\* C29: a set_from_string that returns false changes nothing: the value and
\* the config are as they were before the call.
C29_RejectedSetFromString ==
    [][(call'[1] = "set_from_string" /\ ret' = Some(FALSE)) =>
            (value' = value /\ conf' = conf)]_vars

\* "+-" rejected at its second character under STANDARD, on a value that
\* new_from_string built from "ab\n"
C29_Witness ==
    /\ call = <<"set_from_string", <<43, 45>>>>
    /\ ret = Some(FALSE)
    /\ conf = STANDARD
    /\ value = <<97, 98, CH_NEWLINE, CH_EQUALS>>

\* C30: a set_character_set or set_padding that returns Err leaves the
\* Config as it was; a successful set_character_set, set_padding or
\* set_line_length changes only the field it names.
C30_ConfigSetterFrame ==
    [][/\ (call'[1] \in {"set_character_set", "set_padding"} /\ ret'[1] = "Err") =>
            conf' = conf
       /\ (call'[1] = "set_character_set" /\ ret'[1] = "Ok") =>
            conf' = [conf EXCEPT !.character_set = conf'.character_set]
       /\ (call'[1] = "set_padding" /\ ret'[1] = "Ok") =>
            conf' = [conf EXCEPT !.pad = conf'.pad]
       /\ call'[1] = "set_line_length" =>
            conf' = [conf EXCEPT !.line_length = conf'.line_length]]_vars

\* a rejected set_padding on a Config with another pad and a line length
C30_Witness ==
    /\ call[1] = "set_padding"
    /\ ret[1] = "Err"
    /\ conf.pad # call[2]
    /\ conf.pad # None
    /\ conf.line_length = Some(76)
    /\ conf.character_set = URL_SAFE_SET

====
